---- MODULE Spec2Model ----
(***************************************************************************)
(* Model of src/error-reporter.js: the POST /report-error ingestion        *)
(* pipeline (rate limiter, Joi validation, Gemini enrichment, winston      *)
(* file logging) and the GET /api/logs reader.                             *)
(*                                                                         *)
(* JavaScript values are written as strings carrying their type:           *)
(*   "s:<text>" a string, "n:<number>" a number, "null", "undefined".      *)
(* An object is a function from its keys to such values; a key that is not *)
(* in the DOMAIN is an absent property.                                    *)
(* File text is a sequence of pieces: a newline, a blank, a stretch of     *)
(* text that is no JSON, the complete JSON text of an object, or a proper  *)
(* prefix of the JSON text of an object (a write cut short).               *)
(***************************************************************************)
EXTENDS Integers, Sequences, FiniteSets, TLC

VARIABLES
  env,        \* process environment: cwd and GEMINI_API_KEY (fixed at start)
  now,        \* Date.now(), in milliseconds
  listening,  \* app.listen has been called (startErrorReporter)
  limiter,    \* the rate limiter's store: client key -> [count, windowStart]
  reqs,       \* POST /report-error requests in flight or just answered
  nextId,     \* number of the next request (arrival order)
  wbuf,       \* chunks winston's File transport has queued, not yet on disk
  logCalls,   \* number of logger.info calls made so far
  files,      \* the file system: path -> [exists, data]
  lastRead,   \* the last answer of GET /api/logs, with the text it read
  lost        \* numbers of the requests whose record's write failed

vars == <<env, now, listening, limiter, reqs, nextId, wbuf, logCalls, files, lastRead, lost>>

-----------------------------------------------------------------------------
(* Bounds of the model.                                                    *)

MaxRequests == 2
MaxLost == 1
MaxRequestsE == 1
MaxRequestsL == 102
MaxRequestsF == 102
MaxLines == 3
MaxRequestsS == 2
MaxRequestsC == 103

-----------------------------------------------------------------------------
(* Program constants.                                                      *)

LimiterWindowMs == 60000
LimiterMax == 100
GEMINI_API_KEY == "s:Your gemini api"

ModuleDir == "/app/node_modules/error-reporter"
OtherDir == "/app"
Dirs == {ModuleDir, OtherDir}

\* path.join(dir, 'error.log')
PathJoin(dir, name) == <<dir, name>>

-----------------------------------------------------------------------------
(* JavaScript values.                                                      *)

StringVals ==
  {"s:", "s:x is not defined", "s:boom", "s:https://a.test/p", "s:not a uri",
   "s:at f (a.js:1)", "s:10", "s:Use let before x.", "s:Your gemini api",
   "s:secret", "s:abc",
   "s:Gemini API Key not set. Please configure GEMINI_API_KEY.",
   "s:Gemini API error: Unable to retrieve recommendation.",
   "s:No recommendation provided by Gemini API.",
   "s:Error calling Gemini API.",
   "s:Error reporter started on port 3000"}
UriVals == {"s:https://a.test/p"}
IntegerVals == {"n:10", "n:3", "n:0", "n:42"}
NumberVals == IntegerVals \cup {"n:1.5"}
\* Joi converts a numeric string to a number before it checks it
NumericStrings == {"s:10"}

\* JavaScript truthiness: what `if (v)`, `v && w`, `v || w`, `v ? a : b` test
Truthy(v) == v \notin {"undefined", "null", "s:", "n:0", "b:false"}

\* obj.key
Get(obj, k) == IF k \in DOMAIN obj THEN obj[k] ELSE "undefined"

-----------------------------------------------------------------------------
(* errorSchema and errorSchema.validate(req.body).                         *)

\* the schema's keys, in the order Joi checks them
SchemaKeys == <<"errorMessage", "url", "line", "column", "errorStack">>

\* Joi.string(): a string, and not the empty one
StringError(v) ==
  IF v \notin StringVals THEN "string.base"
  ELSE IF v = "s:" THEN "string.empty"
  ELSE "none"

\* Joi.number().integer(): a number or a numeric string, and an integer
IntegerError(v) ==
  IF v \notin NumberVals \cup NumericStrings THEN "number.base"
  ELSE IF v \notin IntegerVals \cup NumericStrings THEN "number.integer"
  ELSE "none"

\* the error type Joi reports for key k of the body, "none" if it conforms
FieldErrorAllowsMissingUrl(k, body) ==
  LET v == Get(body, k) IN
  CASE k = "errorMessage" ->
         IF v = "undefined" THEN "any.required" ELSE StringError(v)
    [] k = "url" ->
         IF v = "undefined" THEN "none"
         ELSE IF StringError(v) # "none" THEN StringError(v)
         ELSE IF v \notin UriVals THEN "string.uri"
         ELSE "none"
    [] k \in {"line", "column"} ->
         IF v = "undefined" THEN "any.required" ELSE IntegerError(v)
    [] OTHER ->
         IF v \in {"undefined", "null"} THEN "none" ELSE StringError(v)

FieldError(k, body) ==
  LET v == Get(body, k) IN
  CASE k = "errorMessage" ->
         IF v = "undefined" THEN "any.required" ELSE StringError(v)
    [] k = "url" ->
         IF v = "undefined" THEN "any.required"
         ELSE IF StringError(v) # "none" THEN StringError(v)
         ELSE IF v \notin UriVals THEN "string.uri"
         ELSE "none"
    [] k \in {"line", "column"} ->
         IF v = "undefined" THEN "any.required" ELSE IntegerError(v)
    [] OTHER ->
         IF v \in {"undefined", "null"} THEN "none" ELSE StringError(v)

NoError == [path |-> "", type |-> "none"]

\* error.details[0] of errorSchema.validate(body): Joi stops at the first
\* failing key (abortEarly), known keys in schema order, then unknown keys
Validate(body) ==
  LET bad == {i \in 1..Len(SchemaKeys) : FieldError(SchemaKeys[i], body) # "none"}
      unknown == DOMAIN body \ {SchemaKeys[i] : i \in 1..Len(SchemaKeys)}
  IN IF bad # {}
       THEN LET i == CHOOSE j \in bad : \A m \in bad : j <= m
            IN [path |-> SchemaKeys[i], type |-> FieldError(SchemaKeys[i], body)]
     ELSE IF unknown # {}
       THEN [path |-> CHOOSE k \in unknown : TRUE, type |-> "object.unknown"]
     ELSE NoError

-----------------------------------------------------------------------------
(* analyzeErrorWithGemini: the fixed answers and the reading of the        *)
(* service's response.                                                     *)

NotConfigured == "s:Gemini API Key not set. Please configure GEMINI_API_KEY."
ServiceError == "s:Gemini API error: Unable to retrieve recommendation."
NoRecommendation == "s:No recommendation provided by Gemini API."
CallError == "s:Error calling Gemini API."

\* A decoded JSON value of the response: a primitive, an object or an array.
Prim(v) == [t |-> "prim", v |-> v]
Obj(f) == [t |-> "obj", f |-> f]
Arr(e) == [t |-> "arr", e |-> e]
Undefined == Prim("undefined")
\* what a property access on null or undefined does: a TypeError is thrown
Thrown == [t |-> "thrown"]

JsTruthy(x) == x.t \in {"obj", "arr"} \/ (x.t = "prim" /\ Truthy(x.v))

\* x.k for a property name k
Prop(x, k) ==
  CASE x.t = "thrown" -> Thrown
    [] x.t = "prim" -> IF x.v \in {"null", "undefined"} THEN Thrown ELSE Undefined
    [] x.t = "obj" -> IF k \in DOMAIN x.f THEN x.f[k] ELSE Undefined
    [] OTHER -> Undefined

\* x.length > 0
HasElements(x) ==
  CASE x.t = "arr" -> Len(x.e) > 0
    [] x.t = "prim" -> x.v \in StringVals \ {"s:"}
    [] OTHER -> FALSE

\* x[0]
First(x) ==
  CASE x.t = "thrown" -> Thrown
    [] x.t = "arr" -> IF Len(x.e) > 0 THEN x.e[1] ELSE Undefined
    [] x.t = "prim" ->
         IF x.v \in {"null", "undefined"} THEN Thrown
         ELSE IF x.v \in StringVals \ {"s:"} THEN Prim("s:a") ELSE Undefined
    [] OTHER -> Undefined

\* a && b, where b is evaluated only when a is truthy
AndThen(a, b) == IF a.t = "thrown" THEN Thrown ELSE IF JsTruthy(a) THEN b ELSE a

\* lines 97-105: the recommendation read from the decoded response, or Thrown
Extract(geminiData) ==
  LET candidates == Prop(geminiData, "candidates") IN
  IF candidates.t = "thrown" THEN Thrown
  ELSE IF JsTruthy(candidates) /\ HasElements(candidates)
    THEN LET candidate == First(candidates)
             content == Prop(candidate, "content")
             parts == Prop(content, "parts")
             part == First(parts)
             recommendation ==
               AndThen(content, AndThen(parts, AndThen(part, Prop(part, "text"))))
         IN IF recommendation.t = "thrown" THEN Thrown
            ELSE IF JsTruthy(recommendation) THEN recommendation
            ELSE Prim(NoRecommendation)
  ELSE Prim(NoRecommendation)

\* the bodies a success response is given in the model
WithText(v) ==
  Obj([candidates |-> Arr(<<Obj([content |-> Obj([parts |-> Arr(<<Obj([text |-> Prim(v)])>>)])])>>)])
GeminiBodies ==
  { WithText("s:Use let before x."), WithText("s:"), WithText("n:42"),
    Prim("null"), Prim("n:42"), Prim("s:abc"),
    Obj([error |-> Prim("s:boom")]),
    Obj([candidates |-> Arr(<<>>)]),
    Obj([candidates |-> Arr(<<Prim("null")>>)]),
    Obj([candidates |-> Arr(<<Obj([finishReason |-> Prim("s:abc")])>>)]),
    Obj([candidates |-> Arr(<<Obj([content |-> Obj([role |-> Prim("s:abc")])])>>)]),
    Obj([candidates |-> Arr(<<Obj([content |-> Obj([parts |-> Arr(<<>>)])])>>)]),
    Obj([candidates |-> Arr(<<Obj([content |-> Obj([parts |-> Arr(<<Obj([inlineData |-> Prim("s:abc")])>>)])])>>)]) }

\* how the three awaits of lines 81, 87 and 92 can settle
FetchOutcomes == {"reject", "ok", "notok"}
TextOutcomes == {"reject", "text"}
JsonOutcomes == {[kind |-> "reject"], [kind |-> "syntax"]}
                  \cup {[kind |-> "data", data |-> d] : d \in GeminiBodies}

\* lines 92-109: the value analyzeErrorWithGemini returns once
\* response.json() has settled with outcome o
AfterJson(o) ==
  IF o.kind \in {"reject", "syntax"} THEN CallError
  ELSE LET r == Extract(o.data) IN
       IF r.t = "thrown" THEN CallError
       ELSE IF r.t = "prim" THEN r.v
       ELSE "o:object"

\* lines 87-89 and 106-109: the value returned once response.text() has settled
AfterTextSwapped(o) == IF o = "reject" THEN ServiceError ELSE CallError

AfterText(o) == IF o = "reject" THEN CallError ELSE ServiceError

-----------------------------------------------------------------------------
(* The logger: winston with format timestamp() + json() and a File         *)
(* transport on 'error.log'.                                               *)

NL == [p |-> "nl"]
SP == [p |-> "sp"]
Junk == [p |-> "x"]
Json(o) == [p |-> "json", v |-> o]
Cut(o) == [p |-> "cut", v |-> o]

\* JSON.stringify of an object: a property whose value is undefined is left out
Stringify(o) == Json([k \in {j \in DOMAIN o : o[j] # "undefined"} |-> o[k]])

\* new Date().toISOString() at instant t
Timestamp(t) == "t:" \o ToString(t)

\* the info object logger.info(message, meta) hands to the transports
LogInfo(message, meta, t) ==
  [k \in DOMAIN meta \cup {"level", "message", "timestamp"} |->
     CASE k = "level" -> "info"
       [] k = "message" -> message
       [] k = "timestamp" -> Timestamp(t)
       [] OTHER -> meta[k]]

\* what the File transport writes for one info object: its JSON text and EOL
ChunkNoEol(info) == <<Stringify(info)>>

Chunk(info) == <<Stringify(info), NL>>

\* line 125: the meta object of the report's log call
ReportMeta(body, recommendation) ==
  [errorMessage |-> Get(body, "errorMessage"), url |-> Get(body, "url"),
   line |-> Get(body, "line"), column |-> Get(body, "column"),
   errorStack |-> Get(body, "errorStack"), recommendation |-> recommendation]

\* winston resolves the transport's filename against process.cwd()
WriterPath == PathJoin(env.cwd, "error.log")
\* line 131: path.join(__dirname, 'error.log')
ReaderPath == PathJoin(ModuleDir, "error.log")
AllPaths == {PathJoin(d, "error.log") : d \in Dirs}

\* what a write that fails may have put on disk already: nothing, or the JSON
\* text cut short
PartialWrites(chunk) ==
  {<<>>} \cup (IF chunk[1].p = "json" THEN {<<Cut(chunk[1].v)>>} ELSE {})

-----------------------------------------------------------------------------
(* GET /api/logs: lines 136-146.                                           *)

RECURSIVE Split(_)
\* data.split('\n'): the stretches between the newlines, empty ones included
Split(data) ==
  LET nls == {i \in 1..Len(data) : data[i] = NL} IN
  IF nls = {} THEN <<data>>
  ELSE LET i == CHOOSE j \in nls : \A m \in nls : j <= m
       IN <<SubSeq(data, 1, i - 1)>> \o Split(SubSeq(data, i + 1, Len(data)))

RECURSIVE Trim(_)
\* line.trim()
Trim(line) ==
  IF line = <<>> THEN line
  ELSE IF Head(line) = SP THEN Trim(Tail(line))
  ELSE IF line[Len(line)] = SP THEN Trim(SubSeq(line, 1, Len(line) - 1))
  ELSE line

\* JSON.parse(line) succeeds: the line is one complete JSON text, blanks around
\* it allowed
Parses(line) == Len(Trim(line)) = 1 /\ Trim(line)[1].p = "json"

\* lines 140-146: one line's entry of the answer
EntryTrimmed(line) ==
  IF Parses(line) THEN Trim(line)[1].v ELSE [raw |-> Trim(line)]

Entry(line) ==
  IF Parses(line) THEN Trim(line)[1].v ELSE [raw |-> line]

RECURSIVE Filter(_)
\* .filter(line => line.trim() !== '')
Filter(lines) ==
  IF lines = <<>> THEN <<>>
  ELSE IF Trim(Head(lines)) # <<>> THEN <<Head(lines)>> \o Filter(Tail(lines))
  ELSE Filter(Tail(lines))

\* lines 137-146
ParseLogs(data) ==
  LET lines == Filter(Split(data)) IN [i \in 1..Len(lines) |-> Entry(lines[i])]

-----------------------------------------------------------------------------
(* The rate limiter: rateLimit({windowMs, max}), keyed by the client's IP. *)

LimiterMaxOffByOne == LimiterMax - 1

\* the ceiling a client's counter is compared with
Ceiling == LimiterMax

\* the key's window as a request finds it: a fresh one when the key is new
\* or the current instant exceeds window-start + window length
Window(c) ==
  IF c \in DOMAIN limiter /\ ~(now > limiter[c].windowStart + LimiterWindowMs)
    THEN limiter[c]
    ELSE [count |-> 0, windowStart |-> now]

\* the request increments the counter
Hit(c) == [Window(c) EXCEPT !.count = @ + 1]

\* the request passes when the counter does not exceed the ceiling
Allowed(entry) == entry.count <= Ceiling

\* line 113: the handler is registered behind the limiter, which hands the
\* request on only when it allows it
HandlerRunsAlways(entry) == TRUE

HandlerRuns(entry) == Allowed(entry)

TooMany == "s:Too many requests, please try again later."

-----------------------------------------------------------------------------
(* Requests.                                                               *)

\* a request as it arrives
NewRequest(c, body) ==
  [client |-> c, body |-> body, pc |-> "new", status |-> 0,
   message |-> "undefined", recommendation |-> "undefined",
   fetches |-> 0, logged |-> 0, hit |-> 0, at |-> now, seq |-> 0,
   outcome |-> "none", read |-> "none", data |-> Undefined]

\* res.status(code).send({message})
Answer(r, code, message) ==
  [r EXCEPT !.pc = "done", !.status = code, !.message = message]

\* line 126: res.status(200).send({message: errorMessage, recommendation})
Answer200(r, recommendation) ==
  [r EXCEPT !.pc = "done", !.status = 200,
            !.message = Get(r.body, "errorMessage"),
            !.recommendation = recommendation, !.logged = @ + 1,
            !.seq = logCalls + 1]

\* line 125: the chunk logger.info queues for the report, tagged with the
\* request it stems from
ReportChunk(id, r, recommendation) ==
  [rid |-> id,
   text |-> Chunk(LogInfo(Get(r.body, "errorMessage"),
                          ReportMeta(r.body, recommendation), now))]

\* the request table with request id set to r
Put(id, r) == [k \in DOMAIN reqs \cup {id} |-> IF k = id THEN r ELSE reqs[k]]

\* lines 124-126, run when analyzeErrorWithGemini has returned
CompleteQueuesInFront(id, r, recommendation) ==
  /\ reqs' = Put(id, Answer200(r, recommendation))
  /\ wbuf' = <<ReportChunk(id, r, recommendation)>> \o wbuf
  /\ logCalls' = logCalls + 1

Complete(id, r, recommendation) ==
  /\ reqs' = Put(id, Answer200(r, recommendation))
  /\ wbuf' = Append(wbuf, ReportChunk(id, r, recommendation))
  /\ logCalls' = logCalls + 1

\* error.details[0].message
ErrorMessage(error) == "e:" \o error.path \o " " \o error.type

-----------------------------------------------------------------------------
(* Actions.                                                                *)

\* startErrorReporter: app.listen, whose callback logs the start-up message
StartListening ==
  /\ ~listening
  /\ listening' = TRUE
  /\ wbuf' = Append(wbuf,
        [rid |-> 0,
         text |-> Chunk(LogInfo("s:Error reporter started on port 3000",
                                <<>>, now))])
  /\ logCalls' = logCalls + 1
  /\ UNCHANGED <<env, now, limiter, reqs, nextId, files, lastRead, lost>>

\* POST /report-error arrives from client c with the given body: the limiter
\* middleware, then the handler up to its first await that waits for I/O
ReceiveValidatesFirst(c, body, maxReq, maxOpen) ==
  /\ listening
  /\ nextId <= maxReq
  /\ Cardinality(DOMAIN reqs) < maxOpen
  /\ LET id == nextId
         error == Validate(body)
         entry == Hit(c)
         r == [NewRequest(c, body) EXCEPT !.hit = IF error # NoError THEN 0 ELSE entry.count]
     IN /\ limiter' = IF error # NoError THEN limiter
                       ELSE [k \in DOMAIN limiter \cup {c} |->
                               IF k = c THEN entry ELSE limiter[k]]
        /\ nextId' = nextId + 1
        /\ IF error # NoError
             THEN /\ reqs' = Put(id, Answer(r, 400, ErrorMessage(error)))
                  /\ UNCHANGED <<wbuf, logCalls>>
           ELSE IF ~HandlerRuns(entry)
             THEN /\ reqs' = Put(id, Answer(r, 429, TooMany))
                  /\ UNCHANGED <<wbuf, logCalls>>
           ELSE IF ~Truthy(GEMINI_API_KEY)
             THEN Complete(id, r, NotConfigured)
           ELSE /\ reqs' = Put(id, [r EXCEPT !.pc = "fetch", !.fetches = @ + 1])
                /\ UNCHANGED <<wbuf, logCalls>>
  /\ UNCHANGED <<env, now, listening, files, lastRead, lost>>

ReceiveOneCounter(c, body, maxReq, maxOpen) ==
  /\ listening
  /\ nextId <= maxReq
  /\ Cardinality(DOMAIN reqs) < maxOpen
  /\ LET id == nextId
         entry == Hit("*")
         r == [NewRequest(c, body) EXCEPT !.hit = entry.count]
         error == Validate(body)
     IN /\ limiter' = [k \in DOMAIN limiter \cup {"*"} |->
                         IF k = "*" THEN entry ELSE limiter[k]]
        /\ nextId' = nextId + 1
        /\ IF ~HandlerRuns(entry)
             THEN /\ reqs' = Put(id, Answer(r, 429, TooMany))
                  /\ UNCHANGED <<wbuf, logCalls>>
           ELSE IF error # NoError
             THEN /\ reqs' = Put(id, Answer(r, 400, ErrorMessage(error)))
                  /\ UNCHANGED <<wbuf, logCalls>>
           ELSE IF ~Truthy(GEMINI_API_KEY)
             THEN Complete(id, r, NotConfigured)
           ELSE /\ reqs' = Put(id, [r EXCEPT !.pc = "fetch", !.fetches = @ + 1])
                /\ UNCHANGED <<wbuf, logCalls>>
  /\ UNCHANGED <<env, now, listening, files, lastRead, lost>>

Receive(c, body, maxReq, maxOpen) ==
  /\ listening
  /\ nextId <= maxReq
  /\ Cardinality(DOMAIN reqs) < maxOpen
  /\ LET id == nextId
         entry == Hit(c)
         r == [NewRequest(c, body) EXCEPT !.hit = entry.count]
         error == Validate(body)
     IN /\ limiter' = [k \in DOMAIN limiter \cup {c} |->
                         IF k = c THEN entry ELSE limiter[k]]
        /\ nextId' = nextId + 1
        /\ IF ~HandlerRuns(entry)
             THEN /\ reqs' = Put(id, Answer(r, 429, TooMany))
                  /\ UNCHANGED <<wbuf, logCalls>>
           ELSE IF error # NoError
             THEN /\ reqs' = Put(id, Answer(r, 400, ErrorMessage(error)))
                  /\ UNCHANGED <<wbuf, logCalls>>
           ELSE IF ~Truthy(GEMINI_API_KEY)
             THEN Complete(id, r, NotConfigured)
           ELSE /\ reqs' = Put(id, [r EXCEPT !.pc = "fetch", !.fetches = @ + 1])
                /\ UNCHANGED <<wbuf, logCalls>>
  /\ UNCHANGED <<env, now, listening, files, lastRead, lost>>

\* line 81: the fetch of request id settles
FetchSettleInArrivalOrder(id, o) ==
  /\ id \in DOMAIN reqs
  /\ reqs[id].pc = "fetch"
  /\ \A j \in DOMAIN reqs : j < id => reqs[j].pc = "done"
  /\ LET r == [reqs[id] EXCEPT !.outcome = o] IN
     IF o = "reject" THEN Complete(id, r, CallError)
     ELSE /\ reqs' = Put(id, [r EXCEPT !.pc = IF o = "ok" THEN "json" ELSE "text"])
          /\ UNCHANGED <<wbuf, logCalls>>
  /\ UNCHANGED <<env, now, listening, limiter, nextId, files, lastRead, lost>>

FetchSettleRetries(id, o) ==
  /\ id \in DOMAIN reqs
  /\ reqs[id].pc = "fetch"
  /\ LET r == [reqs[id] EXCEPT !.outcome = o] IN
     IF o = "reject" /\ r.fetches < 2
       THEN /\ reqs' = Put(id, [r EXCEPT !.fetches = @ + 1])
            /\ UNCHANGED <<wbuf, logCalls>>
     ELSE IF o = "reject" THEN Complete(id, r, CallError)
     ELSE /\ reqs' = Put(id, [r EXCEPT !.pc = IF o = "ok" THEN "json" ELSE "text"])
          /\ UNCHANGED <<wbuf, logCalls>>
  /\ UNCHANGED <<env, now, listening, limiter, nextId, files, lastRead, lost>>

FetchSettle(id, o) ==
  /\ id \in DOMAIN reqs
  /\ reqs[id].pc = "fetch"
  /\ LET r == [reqs[id] EXCEPT !.outcome = o] IN
     IF o = "reject" THEN Complete(id, r, CallError)
     ELSE /\ reqs' = Put(id, [r EXCEPT !.pc = IF o = "ok" THEN "json" ELSE "text"])
          /\ UNCHANGED <<wbuf, logCalls>>
  /\ UNCHANGED <<env, now, listening, limiter, nextId, files, lastRead, lost>>

\* line 87: response.text() of a non-success response settles
TextSettle(id, o) ==
  /\ id \in DOMAIN reqs
  /\ reqs[id].pc = "text"
  /\ Complete(id, [reqs[id] EXCEPT !.read = o], AfterText(o))
  /\ UNCHANGED <<env, now, listening, limiter, nextId, files, lastRead, lost>>

\* line 92: response.json() of a success response settles
JsonSettle(id, o) ==
  /\ id \in DOMAIN reqs
  /\ reqs[id].pc = "json"
  /\ Complete(id,
              [reqs[id] EXCEPT !.read = o.kind,
                               !.data = IF o.kind = "data" THEN o.data ELSE @],
              AfterJson(o))
  /\ UNCHANGED <<env, now, listening, limiter, nextId, files, lastRead, lost>>

\* line 81: the service will never answer the fetch of request id (the call
\* has no timeout), so the await never resumes
FetchHangs(id) ==
  /\ id \in DOMAIN reqs
  /\ reqs[id].pc = "fetch"
  /\ reqs' = Put(id, [reqs[id] EXCEPT !.pc = "hung", !.outcome = "never"])
  /\ UNCHANGED <<env, now, listening, limiter, nextId, wbuf, logCalls, files, lastRead, lost>>

\* what a failing write of the oldest queued chunk may leave on disk
HeadPartials == IF wbuf = <<>> THEN {} ELSE PartialWrites(Head(wbuf).text)

\* the file the transport appends to, after text was added to it
AppendedTruncates(f, text) == [exists |-> TRUE, data |-> text]

Appended(f, text) ==
  [exists |-> f.exists \/ text # <<>>, data |-> f.data \o text]

\* the File transport's stream writes its oldest queued chunk: all of it, or
\* the write fails after part of it
FileWrite(ok, partial, maxLost) ==
  /\ wbuf # <<>>
  /\ ok \/ Cardinality(lost) < maxLost
  /\ LET chunk == Head(wbuf) IN
     /\ ok \/ partial \in PartialWrites(chunk.text)
     /\ files' = [files EXCEPT ![WriterPath] =
                     Appended(@, IF ok THEN chunk.text ELSE partial)]
     /\ lost' = IF ok THEN lost ELSE lost \cup {chunk.rid}
  /\ wbuf' = Tail(wbuf)
  /\ UNCHANGED <<env, now, listening, limiter, reqs, nextId, logCalls, lastRead>>

\* GET /api/logs: fs.readFile fails (always when the file does not exist) or
\* yields the file's text
ReadLogs(readable) ==
  /\ listening
  /\ LET f == files[ReaderPath] IN
     lastRead' =
       IF f.exists /\ readable
         THEN [status |-> 200, logs |-> ParseLogs(f.data), data |-> f.data,
               readable |-> readable]
         ELSE [status |-> 500, logs |-> <<>>, data |-> <<>>, readable |-> readable]
  /\ UNCHANGED <<env, now, listening, limiter, reqs, nextId, wbuf, logCalls, files, lost>>

\* line 132: fs.readFile is under way and GET /api/logs has no answer yet
ReadPending == [status |-> -1, logs |-> <<>>, data |-> <<>>, readable |-> TRUE]

\* GET /api/logs arrives: lines 131-132, up to the call of fs.readFile
RequestLogs ==
  /\ listening
  /\ lastRead # ReadPending
  /\ lastRead' = ReadPending
  /\ UNCHANGED <<env, now, listening, limiter, reqs, nextId, wbuf, logCalls, files, lost>>

\* an answered request is over
Forget(id) ==
  /\ id \in DOMAIN reqs
  /\ reqs[id].pc = "done"
  /\ reqs' = [k \in DOMAIN reqs \ {id} |-> reqs[k]]
  /\ UNCHANGED <<env, now, listening, limiter, nextId, wbuf, logCalls, files, lastRead, lost>>

\* time passes
Tick(d, horizon) ==
  /\ now + d <= horizon
  /\ now' = now + d
  /\ UNCHANGED <<env, listening, limiter, reqs, nextId, wbuf, logCalls, files, lastRead, lost>>

-----------------------------------------------------------------------------
(* Initial states and specifications.                                      *)

Missing == [exists |-> FALSE, data |-> <<>>]
OldInfo == [level |-> "info", message |-> "s:boom", timestamp |-> "t:old"]
OldLog == [exists |-> TRUE, data |-> <<Json(OldInfo), NL>>]

NoRead == [status |-> 0, logs |-> <<>>, data |-> <<>>, readable |-> TRUE]

\* the state once the module is loaded, in an environment of envs and with
\* the log files as one of fileStates
InitWith(envs, fileStates) ==
  /\ env \in envs
  /\ now = 0
  /\ listening = FALSE
  /\ limiter = <<>>
  /\ reqs = <<>>
  /\ nextId = 1
  /\ wbuf = <<>>
  /\ logCalls = 0
  /\ files \in fileStates
  /\ lastRead = NoRead
  /\ lost = {}

Envs == [cwd : Dirs, GEMINI_API_KEY : {"undefined", "s:secret"}]

\* bodies of the requests
Valid1 ==
  [errorMessage |-> "s:x is not defined", url |-> "s:https://a.test/p",
   line |-> "n:10", column |-> "n:3", errorStack |-> "null"]
Valid2 ==
  [errorMessage |-> "s:boom", url |-> "s:https://a.test/p",
   line |-> "n:0", column |-> "s:10"]
NoMessage == [url |-> "s:https://a.test/p", line |-> "n:10", column |-> "n:3"]
NoUrl == [errorMessage |-> "s:boom", line |-> "n:10", column |-> "n:3"]
NoLine == [errorMessage |-> "s:boom", url |-> "s:https://a.test/p", column |-> "n:3"]
NoColumn == [errorMessage |-> "s:boom", url |-> "s:https://a.test/p", line |-> "n:10"]
BadUrl ==
  [errorMessage |-> "s:boom", url |-> "s:not a uri", line |-> "n:10",
   column |-> "n:3", errorStack |-> "s:at f (a.js:1)"]
NoUrlNoLine == [errorMessage |-> "s:boom", column |-> "n:3"]
InvalidBodies == {NoMessage, NoUrl, NoLine, NoColumn, BadUrl, NoUrlNoLine}

GoodAnswer == [kind |-> "data", data |-> WithText("s:Use let before x.")]
EmptyAnswer == [kind |-> "data", data |-> Obj([candidates |-> Arr(<<>>)])]

\* the log file of an earlier run lies in the working directory
FilesOf(e) == [q \in AllPaths |-> IF q = PathJoin(e.cwd, "error.log") THEN OldLog ELSE Missing]

Init == \E e \in {v \in Envs : v.GEMINI_API_KEY = "s:secret"} : InitWith({e}, {FilesOf(e)})

Next ==
  \/ StartListening
  \/ \E b \in {Valid1, Valid2} : Receive("ip1", b, MaxRequests, MaxRequests)
  \/ \E id \in DOMAIN reqs, o \in {"reject", "ok"} : FetchSettle(id, o)
  \/ \E id \in DOMAIN reqs : JsonSettle(id, GoodAnswer)
  \/ FileWrite(TRUE, <<>>, MaxLost)
  \/ \E partial \in HeadPartials : FileWrite(FALSE, partial, MaxLost)
  \/ \E readable \in BOOLEAN : ReadLogs(readable)

Spec == Init /\ [][Next]_vars

(* One report at a time, with every way its enrichment can end.            *)

InitEnrich == \E e \in Envs : InitWith({e}, {FilesOf(e)})

NextEnrich ==
  \/ StartListening
  \/ \E b \in {Valid1, Valid2, BadUrl} : Receive("ip1", b, MaxRequestsE, MaxRequestsE)
  \/ \E id \in DOMAIN reqs, o \in FetchOutcomes : FetchSettle(id, o)
  \/ \E id \in DOMAIN reqs, o \in TextOutcomes : TextSettle(id, o)
  \/ \E id \in DOMAIN reqs, o \in JsonOutcomes : JsonSettle(id, o)
  \/ FileWrite(TRUE, <<>>, 0)

SpecEnrich == InitEnrich /\ [][NextEnrich]_vars

(* One client sending valid reports one after the other, up to and beyond  *)
(* the limiter's ceiling, the clock stepping once, to just inside or just  *)
(* beyond the window.                                                      *)

\* the client has its answer and the logger has written what it was given
Quiet == DOMAIN reqs = {} /\ wbuf = <<>>

HomeEnv == [cwd |-> ModuleDir, GEMINI_API_KEY |-> "s:secret"]

InitLimiter == InitWith({HomeEnv}, {FilesOf(HomeEnv)})

NextLimiter ==
  \/ StartListening
  \/ Quiet /\ Receive("ip1", Valid1, MaxRequestsL, MaxRequestsL)
  \/ \E id \in DOMAIN reqs : FetchSettle(id, "reject")
  \/ FileWrite(TRUE, <<>>, 0)
  \/ \E id \in DOMAIN reqs : Forget(id)
  \/ \E d \in {LimiterWindowMs - 1, LimiterWindowMs + 1} : Tick(d, LimiterWindowMs + 1)

SpecLimiter == InitLimiter /\ [][NextLimiter]_vars

(* One client sending reports that fail validation, up to and beyond the   *)
(* limiter's ceiling.                                                      *)

NextFlood ==
  \/ StartListening
  \/ \E b \in InvalidBodies : Quiet /\ Receive("ip1", b, MaxRequestsF, MaxRequestsF)
  \/ FileWrite(TRUE, <<>>, 0)
  \/ \E id \in DOMAIN reqs : Forget(id)
  \/ \E d \in {LimiterWindowMs - 1, LimiterWindowMs + 1} : Tick(d, LimiterWindowMs + 1)

SpecFlood == InitLimiter /\ [][NextFlood]_vars

(* Reports whose call to the service may never be answered, beside reads,  *)
(* under the scheduling of the event loop: a settled promise's             *)
(* continuation runs, the stream writes what is queued, and fs.readFile    *)
(* calls back.                                                             *)

NextStall ==
  \/ StartListening
  \/ \E b \in {Valid1} : Receive("ip1", b, MaxRequestsS, MaxRequestsS)
  \/ \E id \in DOMAIN reqs, o \in {"ok", "reject"} : FetchSettle(id, o)
  \/ \E id \in DOMAIN reqs : FetchHangs(id)
  \/ \E id \in DOMAIN reqs : JsonSettle(id, EmptyAnswer)
  \/ FileWrite(TRUE, <<>>, 0)
  \/ RequestLogs
  \/ \E readable \in BOOLEAN : lastRead = ReadPending /\ ReadLogs(readable)

FairStall ==
  /\ \A id \in 1..MaxRequestsS :
       /\ WF_vars(\E o \in {"ok", "reject"} : FetchSettle(id, o))
       /\ WF_vars(JsonSettle(id, EmptyAnswer))
  /\ WF_vars(FileWrite(TRUE, <<>>, 0))
  /\ WF_vars(\E readable \in BOOLEAN : lastRead = ReadPending /\ ReadLogs(readable))

SpecStall == InitLimiter /\ [][NextStall]_vars /\ FairStall

(* Two clients sending valid reports one after the other, in any order, up *)
(* to and beyond the limiter's ceiling.                                    *)

Clients == {"ip1", "ip2"}

NextClients ==
  \/ StartListening
  \/ \E c \in Clients : Quiet /\ Receive(c, Valid1, MaxRequestsC, MaxRequestsC)
  \/ \E id \in DOMAIN reqs : FetchSettle(id, "reject")
  \/ FileWrite(TRUE, <<>>, 0)
  \/ \E id \in DOMAIN reqs : Forget(id)

SpecClients == InitLimiter /\ [][NextClients]_vars

(* GET /api/logs over log files of up to MaxLines lines.                   *)

SampleLines ==
  { <<Json(OldInfo)>>, <<Json([message |-> "s:x is not defined"])>>,
    <<SP, Json(OldInfo), SP>>, <<Junk>>, <<Cut(OldInfo)>>,
    <<Json(OldInfo), Json(OldInfo)>>, <<Json(OldInfo), Junk>>, <<>>, <<SP>>, <<SP, Junk>> }

RECURSIVE Texts(_)
\* the texts of up to n lines, each ended by a newline
Texts(n) ==
  IF n = 0 THEN {<<>>}
  ELSE LET shorter == Texts(n - 1) IN
       shorter \cup {t \o l \o <<NL>> : t \in shorter, l \in SampleLines}

\* the same texts, and those whose last line has no newline
LogTexts == Texts(MaxLines) \cup {t \o l : t \in Texts(MaxLines - 1), l \in SampleLines}

InitRead ==
  InitWith({HomeEnv},
           {[q \in AllPaths |-> IF q = ReaderPath THEN f ELSE Missing] :
              f \in {Missing} \cup {[exists |-> TRUE, data |-> t] : t \in LogTexts}})

NextRead ==
  \/ StartListening
  \/ \E readable \in BOOLEAN : ReadLogs(readable)

SpecRead == InitRead /\ [][NextRead]_vars

-----------------------------------------------------------------------------
(* Properties.                                                             *)

\* the requests that arrive in a step
NewIds == DOMAIN reqs' \ DOMAIN reqs

RequiredKeys == <<"errorMessage", "url", "line", "column">>

\* key k of the body is missing, or is the url and no URI
FieldFails(body, k) == k \notin DOMAIN body \/ (k = "url" /\ body[k] \notin UriVals)

\* the payload misses errorMessage, url, line or column, or its url is no URI
Deficient(body) == \E i \in 1..Len(RequiredKeys) : FieldFails(body, RequiredKeys[i])

\* the first of the required fields that fails
FirstFailing(body) ==
  RequiredKeys[CHOOSE i \in 1..Len(RequiredKeys) :
                 /\ FieldFails(body, RequiredKeys[i])
                 /\ \A j \in 1..(i - 1) : ~FieldFails(body, RequiredKeys[j])]

\* the answer is 400 and describes the first failing field
Is400(r) ==
  /\ r.pc = "done"
  /\ r.status = 400
  /\ r.message \in {ErrorMessage([path |-> FirstFailing(r.body), type |-> t]) :
                       t \in {"any.required", "string.uri"}}

ValidBodies == {Valid1, Valid2}

\* the request has a valid payload and the limiter admitted it
Accepted(r) == r.body \in ValidBodies /\ r.hit <= LimiterMax

\* C2 as stated: a valid payload admitted by the limiter is answered 200 with
\* a recommendation that is a non-empty string, however its enrichment ended.
C2_AsStated ==
  \A id \in DOMAIN reqs :
    (Accepted(reqs[id]) /\ reqs[id].pc = "done") =>
      /\ reqs[id].status = 200
      /\ reqs[id].recommendation \in StringVals \ {"s:"}

\* C9 as stated: with no credential in the environment no request is issued
\* to the service, and the report is answered 200 with the fixed "not
\* configured" string.
C9_AsStated ==
  \A id \in DOMAIN reqs :
    (env.GEMINI_API_KEY = "undefined" /\ Accepted(reqs[id])) =>
      /\ reqs[id].fetches = 0
      /\ reqs[id].pc = "done" =>
           reqs[id].status = 200 /\ reqs[id].recommendation = NotConfigured

\* the call failed in transport: the fetch was rejected, or the reading of the
\* response's body was
TransportFailed(r) == r.outcome = "reject" \/ r.read = "reject"

\* the service's response arrived, body included, with a non-success status
NonSuccess(r) == r.outcome = "notok" /\ r.read = "text"

\* C10: a call that failed in transport yields the fixed "error calling
\* service" string and a non-success response yields the fixed "service
\* error" string; neither class gets the other's string.
C10_FailureClasses ==
  \A id \in DOMAIN reqs :
    reqs[id].pc = "done" /\ reqs[id].status = 200 =>
      /\ TransportFailed(reqs[id]) => reqs[id].recommendation = CallError
      /\ NonSuccess(reqs[id]) => reqs[id].recommendation = ServiceError
      /\ reqs[id].recommendation = ServiceError => ~TransportFailed(reqs[id])
      /\ reqs[id].recommendation = CallError => ~NonSuccess(reqs[id])

\* C10 witness: a report whose call got a non-success response carries the
\* "service error" string.
C10_Witness ==
  \E id \in DOMAIN reqs :
    /\ NonSuccess(reqs[id]) /\ reqs[id].status = 200
    /\ reqs[id].recommendation = ServiceError

\* the records of reports in a text
ReportPieces(text) ==
  {i \in 1..Len(text) : text[i].p = "json" /\ "errorMessage" \in DOMAIN text[i].v}

\* the records of reports written to the log file or queued for it
ReportCount ==
  Cardinality(ReportPieces(files[WriterPath].data))
    + Cardinality({i \in 1..Len(wbuf) : ReportPieces(wbuf[i].text) # {}})

Min(a, b) == IF a <= b THEN a ELSE b

\* requests whose enrichment is under way
Enriching == {id \in DOMAIN reqs : reqs[id].pc # "done"}

\* C3, within one window: the n-th valid request a client issues less than
\* the window length after its first is admitted when n is at most 100 and
\* rejected when n is 101 or more, and a rejected request adds no record.
C3_Window ==
  /\ \A id \in DOMAIN reqs :
       reqs[id].at < LimiterWindowMs =>
         /\ reqs[id].hit = id
         /\ id <= LimiterMax =>
              reqs[id].status # 429 /\ (reqs[id].pc = "done" => reqs[id].status = 200)
         /\ id > LimiterMax =>
              /\ reqs[id].status = 429 /\ reqs[id].logged = 0
              /\ \A i \in 1..Len(wbuf) : wbuf[i].rid # id
  /\ now < LimiterWindowMs =>
       ReportCount = Min(nextId - 1, LimiterMax) - Cardinality(Enriching)

\* C3, after the window: a request that arrives when the current instant
\* exceeds window-start + window length is admitted, and it sets the counter
\* to 1 and the window-start to the current instant.
C3_Reset ==
  \A id \in NewIds :
    LET c == reqs'[id].client IN
    (c \in DOMAIN limiter /\ now > limiter[c].windowStart + LimiterWindowMs) =>
      /\ reqs'[id].status # 429
      /\ limiter'[c] = [count |-> 1, windowStart |-> now]

\* C3: both parts.
C3_Limiter == []C3_Window /\ [][C3_Reset]_vars

\* C3 witness: after 101 requests in one window, the last of them rejected,
\* the request that arrives once the window has elapsed is admitted with the
\* counter back at 1.
C3_Witness ==
  \E id \in DOMAIN reqs :
    /\ id = LimiterMax + 2 /\ reqs[id].at > LimiterWindowMs
    /\ reqs[id].hit = 1 /\ reqs[id].status # 429

\* C4, in every state: a request over the ceiling is answered 429, no call to
\* the service was issued for it, and no record was logged or queued for it.
C4_Rejected ==
  \A id \in DOMAIN reqs :
    reqs[id].hit > LimiterMax =>
      /\ reqs[id].status = 429
      /\ reqs[id].fetches = 0 /\ reqs[id].logged = 0
      /\ \A i \in 1..Len(wbuf) : wbuf[i].rid # id

\* C4, in every step: the arrival of a request over the ceiling leaves the
\* logger and the log file as they were, and nothing happens to it later.
C4_Step ==
  /\ \A id \in NewIds :
       reqs'[id].hit > LimiterMax =>
         wbuf' = wbuf /\ logCalls' = logCalls /\ files' = files
  /\ \A id \in DOMAIN reqs \cap DOMAIN reqs' :
       reqs[id].hit > LimiterMax => reqs'[id] = reqs[id]

\* C4: a request the limiter rejects reaches neither enrichment nor the store.
C4_NeverReaches == []C4_Rejected /\ [][C4_Step]_vars

\* C4 witness: the 101st request of a window has been rejected.
C4_Witness ==
  \E id \in DOMAIN reqs :
    reqs[id].hit = LimiterMax + 1 /\ reqs[id].status = 429 /\ ReportCount = LimiterMax

\* the places of the newlines of a text
Newlines(data) == {i \in 1..Len(data) : data[i] = NL}

\* the place of the k-th newline; 0 before the first, past the end after the last
NewlineAt(data, k) ==
  IF k = 0 THEN 0
  ELSE IF k > Cardinality(Newlines(data)) THEN Len(data) + 1
  ELSE CHOOSE i \in Newlines(data) :
         Cardinality({j \in Newlines(data) : j < i}) = k - 1

\* the number of stretches the newlines cut the text into
LineCount(data) == Cardinality(Newlines(data)) + 1

\* the k-th of them
LineAt(data, k) ==
  SubSeq(data, NewlineAt(data, k - 1) + 1, NewlineAt(data, k) - 1)

\* the line holds nothing but blanks
Blank(line) == \A i \in 1..Len(line) : line[i] = SP

\* the line is one complete JSON text with at most blanks around it
Decodes(line) ==
  \E i \in 1..Len(line) :
    line[i].p = "json" /\ \A j \in 1..Len(line) \ {i} : line[j] = SP

\* the object it is the text of
Decoded(line) == line[CHOOSE i \in 1..Len(line) : line[i].p = "json"].v

\* the lines of a text that are not blank, by their number
RecordLines(data) == {k \in 1..LineCount(data) : ~Blank(LineAt(data, k))}

\* C6: the answer of a full read has one entry per line of the file that is
\* not blank, in the file's order: the decoded record for a line that decodes,
\* and {raw: <the line's text>} for one that does not.
C6_EntryPerLine ==
  lastRead.status = 200 =>
    LET d == lastRead.data
        K == RecordLines(d)
    IN /\ Len(lastRead.logs) = Cardinality(K)
       /\ \A k \in K :
            lastRead.logs[Cardinality({j \in K : j <= k})] =
              IF Decodes(LineAt(d, k)) THEN Decoded(LineAt(d, k))
              ELSE [raw |-> LineAt(d, k)]

\* C6 witness: a file of a record, a line that is no JSON and another record
\* was read: three entries, the middle one the raw line.
C6_Witness ==
  /\ lastRead.status = 200
  /\ lastRead.data =
       <<Json(OldInfo), NL, Junk, NL, Json([message |-> "s:x is not defined"]), NL>>
  /\ Len(lastRead.logs) = 3
  /\ lastRead.logs[1] = OldInfo
  /\ lastRead.logs[2] = [raw |-> <<Junk>>]
  /\ lastRead.logs[3] = [message |-> "s:x is not defined"]

\* the text of the file the logger appends to
Store == files[WriterPath].data

\* the lines the log file held before the process started
OldLines == LineCount(OldLog.data) - 1

\* the fields the ingestion path wrote for request r are those of entry
Matches(entry, r) ==
  /\ "raw" \notin DOMAIN entry
  /\ Get(entry, "message") = Get(r.body, "errorMessage")
  /\ \A k \in {"url", "line", "column", "errorStack"} :
       Get(entry, k) = Get(r.body, k)
  /\ Get(entry, "recommendation") = r.recommendation

\* every request has its answer and the logger has written all it was given
Settled ==
  /\ listening
  /\ wbuf = <<>>
  /\ \A id \in DOMAIN reqs : reqs[id].pc = "done"

\* the record of request id was appended to the log file
Written(id) ==
  /\ reqs[id].status = 200
  /\ id \notin lost
  /\ \A i \in 1..Len(wbuf) : wbuf[i].rid # id

\* C5 (as stated): a read through GET /api/logs, made when reports have been
\* accepted and their records appended and while the file system serves
\* reads, answers 200 with every appended record, in append order, each with
\* message, url, line, column, errorStack and recommendation as written.
C5_AsStated ==
  [][(lastRead' # lastRead /\ lastRead'.readable
        /\ \E id \in DOMAIN reqs : Written(id))
     => /\ lastRead'.status = 200
        /\ \A id \in DOMAIN reqs :
             Written(id) =>
               \E i \in 1..Len(lastRead'.logs) : Matches(lastRead'.logs[i], reqs[id])
        /\ \A a, b \in DOMAIN reqs :
             (Written(a) /\ Written(b) /\ reqs[a].seq < reqs[b].seq) =>
               \E i, j \in 1..Len(lastRead'.logs) :
                 /\ i < j
                 /\ Matches(lastRead'.logs[i], reqs[a])
                 /\ Matches(lastRead'.logs[j], reqs[b])]_vars

\* C7: when no write to the log file fails, the file is at every moment a
\* sequence of complete records, each on a line of its own, and once N
\* requests sent concurrently have been answered and the logger has written
\* what it was given, the file holds exactly N lines more than before them
\* (beside the start-up line), one per request, in the order of the log calls.
C7_ExactlyN ==
  lost = {} =>
    LET n == LineCount(Store) IN
    /\ LineAt(Store, n) = <<>>
    /\ \A k \in 1..(n - 1) : Decodes(LineAt(Store, k))
    /\ Settled =>
         /\ n - 1 = OldLines + 1 + Cardinality(DOMAIN reqs)
         /\ \A id \in DOMAIN reqs :
              /\ reqs[id].status = 200
              /\ Matches(Decoded(LineAt(Store, OldLines + reqs[id].seq)), reqs[id])

\* C7 witness: two requests were in flight together, the one that arrived
\* second made its log call first, and both records are in the file.
C7_Witness ==
  /\ lost = {}
  /\ Settled
  /\ DOMAIN reqs = {1, 2}
  /\ reqs[2].seq < reqs[1].seq
  /\ reqs[1].body # reqs[2].body
  /\ LineCount(Store) - 1 = OldLines + 3
  /\ Matches(Decoded(LineAt(Store, OldLines + 2)), reqs[2])
  /\ Matches(Decoded(LineAt(Store, OldLines + 3)), reqs[1])

\* C8 (as stated): a request whose record the logger failed to write is not
\* answered 200, and no part of a report's record stays in the log file.
C8_AsStated ==
  /\ \A id \in lost \cap DOMAIN reqs : reqs[id].status # 200
  /\ \A i \in 1..Len(Store) :
       Store[i].p = "cut" => "errorMessage" \notin DOMAIN Store[i].v

\* the decoded body holds a first candidate with a first part with a text
HasText(d) ==
  /\ d.t = "obj" /\ "candidates" \in DOMAIN d.f
  /\ LET cs == d.f["candidates"] IN
     /\ cs.t = "arr" /\ Len(cs.e) > 0
     /\ LET c == cs.e[1] IN
        /\ c.t = "obj" /\ "content" \in DOMAIN c.f
        /\ c.f["content"].t = "obj" /\ "parts" \in DOMAIN c.f["content"].f
        /\ LET ps == c.f["content"].f["parts"] IN
           /\ ps.t = "arr" /\ Len(ps.e) > 0
           /\ ps.e[1].t = "obj" /\ "text" \in DOMAIN ps.e[1].f
           /\ ps.e[1].f["text"].t = "prim"

\* that text
TheText(d) == d.f["candidates"].e[1].f["content"].f["parts"].e[1].f["text"].v

\* the service answered with a success status and its body arrived
SuccessResponse(r) ==
  r.pc = "done" /\ r.status = 200 /\ r.outcome = "ok" /\ r.read \in {"syntax", "data"}

\* C11 (as stated): for a success response, the recommendation is the first
\* candidate's first text part where the body holds one (an empty text may
\* also give the fixed string), and the fixed "no recommendation provided"
\* string for every other body, an undecodable one included.
C11_AsStated ==
  \A id \in DOMAIN reqs :
    SuccessResponse(reqs[id]) =>
      LET r == reqs[id] IN
      IF r.read = "data" /\ HasText(r.data)
        THEN \/ r.recommendation = TheText(r.data)
             \/ TheText(r.data) = "s:" /\ r.recommendation = NoRecommendation
        ELSE r.recommendation = NoRecommendation

\* C12 (as stated): GET /api/logs answers 500 exactly when the store, the
\* file the records are appended to, cannot be read, and otherwise answers
\* 200 with one entry per record line of the store, decodable or not.
C12_AsStated ==
  [][lastRead' # lastRead =>
       LET canRead == files[WriterPath].exists /\ lastRead'.readable IN
       /\ lastRead'.status = 500 <=> ~canRead
       /\ canRead => /\ lastRead'.status = 200
                      /\ Len(lastRead'.logs) = Cardinality(RecordLines(Store))]_vars

\* the count of client c's window as a request arriving now finds it: 0 when
\* the client has no window or its window has elapsed
CountBefore(c) ==
  IF c \in DOMAIN limiter /\ now <= limiter[c].windowStart + LimiterWindowMs
    THEN limiter[c].count ELSE 0

AddedLines == (OldLines + 1)..(LineCount(Store) - 1)

\* the reports that passed the limiter and validation and whose enrichment
\* has completed
AcceptedReports == {id \in DOMAIN reqs : reqs[id].status = 200}

\* C14 (as stated): when no write has failed, the records the store gained
\* since startup, those still queued for it included, are as many as the
\* accepted reports, and each of them is the record of a report.
C14_AsStated ==
  lost = {} =>
    /\ Cardinality(AddedLines) + Len(wbuf) = Cardinality(AcceptedReports)
    /\ \A k \in AddedLines :
         /\ Decodes(LineAt(Store, k))
         /\ \E id \in AcceptedReports : Matches(Decoded(LineAt(Store, k)), reqs[id])

\* C15 (as stated): where the reader's file is the logger's and no write has
\* failed, a read through GET /api/logs made after a report was answered 200
\* returns a record with the report's message and the answer's
\* recommendation.
C15_AsStated ==
  [][(lastRead' # lastRead /\ lastRead'.readable
        /\ ReaderPath = WriterPath /\ lost = {})
     => \A id \in AcceptedReports :
          /\ lastRead'.status = 200
          /\ \E i \in 1..Len(lastRead'.logs) :
               /\ "raw" \notin DOMAIN lastRead'.logs[i]
               /\ Get(lastRead'.logs[i], "message") = reqs[id].message
               /\ Get(lastRead'.logs[i], "recommendation") = reqs[id].recommendation]_vars

\* the lines of the log file that hold the record of request id
LinesOf(id) ==
  {k \in AddedLines : Decodes(LineAt(Store, k))
                      /\ Matches(Decoded(LineAt(Store, k)), reqs[id])}

\* the places in the logger's queue of the record of request id
QueuedAt(id) == {i \in 1..Len(wbuf) : wbuf[i].rid = id}

\* C16: when no write has failed, of two accepted requests the one whose
\* enrichment completed first has its record first: both in the log file,
\* its line before the other's; or it in the file and the other still
\* queued; or both queued, it ahead of the other. Arrival order plays no part.
C16_CompletionOrder ==
  lost = {} =>
    \A a, b \in AcceptedReports :
      reqs[a].seq < reqs[b].seq =>
        \/ \E i \in LinesOf(a), j \in LinesOf(b) : i < j
        \/ LinesOf(a) # {} /\ QueuedAt(b) # {}
        \/ \E i \in QueuedAt(a), j \in QueuedAt(b) : i < j

\* C16 witness: the request that arrived second completed its enrichment
\* first, and its record stands in the log file before the record of the
\* request that arrived first.
C16_Witness ==
  /\ lost = {}
  /\ {1, 2} \subseteq AcceptedReports
  /\ reqs[2].seq < reqs[1].seq
  /\ reqs[1].recommendation # reqs[2].recommendation
  /\ \E i \in LinesOf(2), j \in LinesOf(1) : i < j /\ i \notin LinesOf(1)

\* the service never answers the call of request id
Stalled(id) == id \in DOMAIN reqs /\ reqs[id].pc = "hung"

\* request id is answered 200 and its record is in the log file
AnsweredAndAppended(id) ==
  id \in DOMAIN reqs /\ reqs[id].status = 200 /\ LinesOf(id) # {}

\* C17, the stalled request: it has no answer and no record, queued or
\* written
C17_StalledState ==
  \A id \in DOMAIN reqs :
    Stalled(id) =>
      /\ reqs[id].status = 0 /\ reqs[id].logged = 0
      /\ QueuedAt(id) = {} /\ LinesOf(id) = {}

\* and nothing ever happens to it
C17_StalledStep ==
  \A id \in DOMAIN reqs : Stalled(id) => id \in DOMAIN reqs' /\ reqs'[id] = reqs[id]

\* C17: a request whose call to the service is never answered stalls only
\* itself. It is never answered and writes no record, while every request
\* that is not stalled is eventually answered 200 with its record appended to
\* the log file (or turns out to be stalled itself), and every GET /api/logs
\* is eventually answered.
C17_StallsOnlyItself ==
  /\ []C17_StalledState
  /\ [][C17_StalledStep]_vars
  /\ \A id \in 1..MaxRequestsS :
       (id \in DOMAIN reqs /\ ~Stalled(id)) ~> (Stalled(id) \/ AnsweredAndAppended(id))
  /\ (lastRead = ReadPending) ~> (lastRead.status \in {200, 500})

\* C17 witness: the first request is stalled, and the request that arrived
\* after it is answered, its record is in the log file, and a read made
\* since returned it.
C17_Witness ==
  /\ Stalled(1)
  /\ AnsweredAndAppended(2)
  /\ lastRead.status = 200
  /\ \E i \in 1..Len(lastRead.logs) : Matches(lastRead.logs[i], reqs[2])

\* text a is the beginning of text b
IsPrefix(a, b) == Len(a) <= Len(b) /\ SubSeq(b, 1, Len(a)) = a

\* the lines of a text that are ended by a newline, in order
EndedLines(data) == LET lines == Split(data) IN SubSeq(lines, 1, Len(lines) - 1)

\* C18: every step that changes a log file leaves each file's text before
\* the step as the beginning of its text after the step, and likewise the
\* sequence of its lines; a file that exists stays; and such a step is never
\* the one in which GET /api/logs is answered, which leaves the files as
\* they were.
C18_AppendOnly ==
  [][files' # files =>
       /\ \A q \in AllPaths :
            /\ IsPrefix(files[q].data, files'[q].data)
            /\ IsPrefix(EndedLines(files[q].data), EndedLines(files'[q].data))
            /\ files[q].exists => files'[q].exists
       /\ lastRead' = lastRead]_vars

\* C18 witness: the log file was read, and a report's record was appended to
\* it afterwards, behind what the read returned.
C18_Witness ==
  /\ lastRead.status = 200 /\ lastRead.data # <<>>
  /\ IsPrefix(lastRead.data, Store) /\ Len(Store) > Len(lastRead.data)
  /\ \E id \in AcceptedReports :
       \E k \in LinesOf(id) : k > LineCount(lastRead.data) - 1

\* C19, in every state: at most one request to the service has been issued
\* for a report, exactly one once an accepted report is answered, and none
\* for a report whose payload fails validation.
C19_State ==
  \A id \in DOMAIN reqs :
    /\ reqs[id].fetches <= 1
    /\ Deficient(reqs[id].body) => reqs[id].fetches = 0
    /\ reqs[id].status = 200 => reqs[id].fetches = 1

\* C19, in every step: the request to the service is issued when the report
\* arrives, and none is issued for it later, however the call ends.
C19_Step ==
  \A id \in DOMAIN reqs \cap DOMAIN reqs' : reqs'[id].fetches = reqs[id].fetches

\* C19: enrichment makes a single attempt.
C19_SingleAttempt == []C19_State /\ [][C19_Step]_vars

\* C19 witness: a report whose call failed in transport was answered after
\* that one attempt.
C19_Witness ==
  \E id \in DOMAIN reqs :
    /\ reqs[id].outcome = "reject" /\ reqs[id].status = 200
    /\ reqs[id].recommendation = CallError /\ reqs[id].fetches = 1

\* the requests client c has been counted for
CountOf(c) == IF c \in DOMAIN limiter THEN limiter[c].count ELSE 0

\* C20, in every step: a request of client c raises c's counter by one, is
\* rejected exactly when c's own counter then exceeds the ceiling, and leaves
\* every other client's counter and window-start as they were.
C20_Step ==
  \A id \in NewIds :
    LET c == reqs'[id].client IN
    /\ c \in DOMAIN limiter' /\ limiter'[c].count = CountBefore(c) + 1
    /\ reqs'[id].status = 429 <=> CountBefore(c) + 1 > LimiterMax
    /\ \A d \in DOMAIN limiter \ {c} : d \in DOMAIN limiter' /\ limiter'[d] = limiter[d]
    /\ DOMAIN limiter' \subseteq Clients

\* C20, in every state: within the window, the counters of the clients add
\* up to the number of requests received; no increment is lost.
C20_NoneLost == CountOf("ip1") + CountOf("ip2") = nextId - 1

\* C20: the limiter's state is per client.
C20_PerClient == []C20_NoneLost /\ [][C20_Step]_vars

\* C20 witness: one client is over its ceiling, and a request of the other
\* client that arrived after that is admitted, counted as that client's
\* second.
C20_Witness ==
  /\ CountOf("ip2") = LimiterMax + 1
  /\ \E id \in DOMAIN reqs :
       /\ id = MaxRequestsC /\ reqs[id].client = "ip1"
       /\ reqs[id].hit = 2 /\ reqs[id].status # 429

====
